---- MODULE Spec2Model ----
(***************************************************************************)
(* Model of app/api/connection-details/route.ts (token-issuance endpoint)  *)
(* and of createLocalTrack (the local-track adapter).                      *)
(*                                                                         *)
(* RouteSpec     : one request at a time through handle(); the request,    *)
(*                 the process environment and the signer's outcome are    *)
(*                 inputs.                                                 *)
(* LifecycleSpec : one adapter, any source and runtime; initialize,        *)
(*                 teardown, SDK state changes and participant events.     *)
(* TrackSpec     : one adapter in a browser; overlapping set / toggle /    *)
(*                 waitUntilNotPending calls, the SDK settling them, and   *)
(*                 participant events.                                     *)
(* TrackLiveSpec : TrackSpec with queued continuations run and issued SDK  *)
(*                 calls settled (weak fairness).                          *)
(* DeviceSpec    : one adapter in a browser; device enumerations started   *)
(*                 by initialize, device-change events and callers, and    *)
(*                 changeActive calls, settling in any order.              *)
(***************************************************************************)
EXTENDS Integers, Sequences, FiniteSets, TLC

(***************************************************************************)
(* Bounds of the model.                                                    *)
(***************************************************************************)
\* Math.floor(Math.random() * RandomRange) is drawn from 0 .. RandBound.
RandBound == 1

\* Program constants.
RandomRange == 10000

(***************************************************************************)
(* JavaScript values.  Every value carries its typeof-like tag in t.       *)
(***************************************************************************)
Undefined == [t |-> "undefined"]
Null == [t |-> "null"]
JStr(s) == [t |-> "string", v |-> s]
JNum(n) == [t |-> "number", v |-> n]
JBool(b) == [t |-> "boolean", v |-> b]
JArr(s) == [t |-> "array", v |-> s]
\* An object: its own keys k and the function v from keys to values.
JObj(keys, f) == [t |-> "object", k |-> keys, v |-> f]
EmptyObj == JObj({}, <<>>)
\* new Error(message)
JError(m) == [t |-> "error", message |-> m]

\* JavaScript truthiness (the `!v` of requireEnv, the `if (agentName)`).
Truthy(v) ==
  CASE v.t = "undefined" -> FALSE
    [] v.t = "null" -> FALSE
    [] v.t = "string" -> v.v # ""
    [] v.t = "number" -> v.v # 0
    [] v.t = "boolean" -> v.v
    [] OTHER -> TRUE

\* obj[key] for a string key: own property, else undefined.
Prop(obj, key) ==
  IF obj.t = "object" /\ key \in obj.k THEN obj.v[key] ELSE Undefined

\* String(v) for the values a rejection can carry.
JSString(v) ==
  CASE v.t = "string" -> v.v
    [] v.t = "error" -> "Error: " \o v.message
    [] v.t = "undefined" -> "undefined"
    [] v.t = "null" -> "null"
    [] OTHER -> "[object Object]"

(***************************************************************************)
(* The inputs of the endpoint.                                             *)
(***************************************************************************)
\* process.env: each variable unset, empty, or set.
EnvValues(name) == {Undefined, JStr(""), JStr(name \o "_value")}
Envs == [url : EnvValues("LIVEKIT_URL"),
         key : EnvValues("LIVEKIT_API_KEY"),
         secret : EnvValues("LIVEKIT_API_SECRET")]
EnvGet(env, name) ==
  CASE name = "LIVEKIT_URL" -> env.url
    [] name = "LIVEKIT_API_KEY" -> env.key
    [] name = "LIVEKIT_API_SECRET" -> env.secret

\* JSON documents a POST body can hold, as req.json() would parse them.
JsonLeaves == <<Null, JBool(TRUE), JNum(7), JStr(""), JStr("agentA")>>
AgentObjs ==
  <<EmptyObj,
    JObj({"agent_name"}, [agent_name |-> JStr("agentA")]),
    JObj({"agent_name"}, [agent_name |-> JStr("")]),
    JObj({"agent_name"}, [agent_name |-> JNum(7)]),
    JObj({"agent_name"}, [agent_name |-> Null]),
    JObj({"agent_name"}, [agent_name |-> JArr(<<JStr("agentA")>>)]),
    JObj({"name"}, [name |-> JStr("agentA")]),
    JArr(<<JStr("agentA")>>)>>
AgentsValues ==
  JsonLeaves \o
  <<JArr(<<>>), EmptyObj,
    JObj({"agent_name"}, [agent_name |-> JStr("agentA")])>> \o
  [i \in 1..Len(JsonLeaves) |-> JArr(<<JsonLeaves[i]>>)] \o
  [i \in 1..Len(AgentObjs) |-> JArr(<<AgentObjs[i]>>)] \o
  <<JArr(<<JObj({"agent_name"}, [agent_name |-> JStr("agentA")]),
           JObj({"agent_name"}, [agent_name |-> JStr("agentB")])>>),
    JArr(<<Null, JObj({"agent_name"}, [agent_name |-> JStr("agentB")])>>)>>
RoomConfigValues ==
  JsonLeaves \o
  <<EmptyObj, JArr(<<>>),
    JObj({"name"}, [name |-> JStr("agentA")])>> \o
  [i \in 1..Len(AgentsValues) |-> JObj({"agents"}, [agents |-> AgentsValues[i]])]
JsonBodies ==
  JsonLeaves \o
  <<EmptyObj, JArr(<<>>),
    JObj({"agents"}, [agents |-> JArr(<<JObj({"agent_name"}, [agent_name |-> JStr("agentA")])>>)])>> \o
  [i \in 1..Len(RoomConfigValues) |->
     JObj({"room_config"}, [room_config |-> RoomConfigValues[i]])]

\* The raw body: nothing, text that is no JSON, or a JSON document.
RawBodies ==
  <<[kind |-> "empty"], [kind |-> "malformed"]>> \o
  [i \in 1..Len(JsonBodies) |-> [kind |-> "json", json |-> JsonBodies[i]]]

\* url.searchParams.get('agentName'): null when absent.
QueryValues == {Null, JStr(""), JStr("agentQ")}

NoRequest == [method |-> "none", query |-> Null, body |-> [kind |-> "empty"]]
NoEnv == [url |-> Undefined, key |-> Undefined, secret |-> Undefined]
NoToken == [t |-> "none"]
NoResponse == [status |-> 0]

VARIABLES
  rpc,          \* where handle() is: "idle", "json", "jwt", "done"
  request,      \* the Request: method, agentName query value, raw body
  environ,      \* process.env at the time of the request
  agentName,    \* handle's local agentName
  at,           \* the AccessToken handed to the signer, NoToken before that
  bodyReads,    \* number of req.json() calls made for this request
  signerCalls,  \* number of at.toJwt() calls made for this request
  signerOutcome,\* "none", "resolved", "rejectedError", "rejectedOther"
  outcome,      \* "none", "returned", "threw"
  response,     \* the response handle() returned
  locals        \* handle's constants: LIVEKIT_URL, API_KEY, API_SECRET,
                \* participantName, participantIdentity, roomName

routeVars == <<rpc, request, environ, agentName, at, bodyReads, signerCalls,
               signerOutcome, outcome, response, locals>>

VARIABLES
  source,        \* options.trackSource
  platform,      \* the runtime: window, isSecureContext, navigator, mediaDevices
  sdkEnabled,    \* localParticipant.isCameraEnabled / isMicrophoneEnabled / isScreenShareEnabled
  sdkPublication,\* localParticipant.getTrackPublication(options.trackSource)
  st,            \* the LocalTrackInstance held by get()/set()
  partListeners, \* times handleParticipantEvent is registered, per participant event
  deviceChangeListener, \* handleDeviceChange registered on mediaDevices 'devicechange'
  roomListeners, \* times handleDeviceChange is registered on RoomEvent.ActiveDeviceChanged
  enums,         \* the listDevices invocations made so far, oldest first, each
                 \* with its Room.getLocalDevices call and how it ended
  lifecycle,     \* the initialize/teardown calls made so far, in order
  calls,         \* the set/toggle calls made so far, in order, each with
                 \* its position in setEnabled, what it emitted and saved
  waiters,       \* calls whose onceEventOccurred is registered on PendingDisabled
  preventUserChoicesSave, \* options.preventUserChoicesSave
  changes        \* the changeActiveDevice calls made so far, in order, each
                 \* with its room.switchActiveDevice call and how it ended

trackVars == <<source, platform, sdkEnabled, sdkPublication, st, partListeners,
               deviceChangeListener, roomListeners, enums, lifecycle, calls,
               waiters, preventUserChoicesSave, changes>>

vars == <<routeVars, trackVars>>

NoLocals == [LIVEKIT_URL |-> Undefined, API_KEY |-> Undefined,
             API_SECRET |-> Undefined, participantName |-> Undefined,
             participantIdentity |-> Undefined, roomName |-> Undefined]

(***************************************************************************)
(* The endpoint's functions.  A function that can throw returns            *)
(* [threw |-> TRUE, err |-> e] or [threw |-> FALSE, value |-> v].          *)
(***************************************************************************)
Threw(e) == [threw |-> TRUE, err |-> e]
Returned(v) == [threw |-> FALSE, value |-> v]

requireEnv_undefinedOnly(env, name) ==
  LET v == EnvGet(env, name)
  IN  IF v.t = "undefined" THEN Threw(JError(name \o " is not defined"))
      ELSE Returned(v)

requireEnv(env, name) ==
  LET v == EnvGet(env, name)
  IN  IF ~Truthy(v) THEN Threw(JError(name \o " is not defined"))
      ELSE Returned(v)

isRecord(v) == v.t \in {"object", "array"}

getAgentNameFromBody_anyType(body) ==
  IF ~isRecord(body) THEN Undefined
  ELSE LET rc == Prop(body, "room_config")
       IN  IF ~isRecord(rc) THEN Undefined
           ELSE LET agents == Prop(rc, "agents")
                IN  IF agents.t # "array" \/ Len(agents.v) = 0 THEN Undefined
                    ELSE LET first == agents.v[1]
                         IN  IF ~isRecord(first) THEN Undefined
                             ELSE Prop(first, "agent_name")

getAgentNameFromBody(body) ==
  IF ~isRecord(body) THEN Undefined
  ELSE LET rc == Prop(body, "room_config")
       IN  IF ~isRecord(rc) THEN Undefined
           ELSE LET agents == Prop(rc, "agents")
                IN  IF agents.t # "array" \/ Len(agents.v) = 0 THEN Undefined
                    ELSE LET first == agents.v[1]
                         IN  IF ~isRecord(first) THEN Undefined
                             ELSE LET name == Prop(first, "agent_name")
                                  IN  IF name.t = "string" THEN name ELSE Undefined

\* Request.json(): the parsed document, or a SyntaxError for an empty or
\* malformed body.
reqJson(raw) ==
  IF raw.kind = "json" THEN Returned(raw.json)
  ELSE Threw(JError("Unexpected end of JSON input"))

readBody_noCatch(raw) == reqJson(raw)

\* let bodyUnknown = {}; try { bodyUnknown = await req.json() } catch {}
readBody(raw) ==
  LET r == reqJson(raw)
  IN  IF r.threw THEN Returned(EmptyObj) ELSE r

\* searchParams.get('agentName') ?? undefined
queryAgentName(req) == IF req.query.t = "null" THEN Undefined ELSE req.query

VideoGrantOf(room) ==
  [room |-> room, roomJoin |-> TRUE, canPublish |-> TRUE,
   canPublishData |-> TRUE, canSubscribe |-> TRUE]

createParticipantToken_longTtl(userInfo, room, agent, apiKey, apiSecret) ==
  [t |-> "AccessToken", apiKey |-> apiKey, apiSecret |-> apiSecret,
   identity |-> userInfo.identity, name |-> userInfo.name, ttl |-> "15h",
   video |-> VideoGrantOf(room),
   roomConfig |-> IF Truthy(agent)
                  THEN [t |-> "RoomConfiguration", agents |-> <<[agentName |-> agent]>>]
                  ELSE Undefined]

\* new AccessToken(apiKey, apiSecret, {...userInfo, ttl}), addGrant, roomConfig:
\* the token object whose toJwt() is then called.
createParticipantToken(userInfo, room, agent, apiKey, apiSecret) ==
  [t |-> "AccessToken", apiKey |-> apiKey, apiSecret |-> apiSecret,
   identity |-> userInfo.identity, name |-> userInfo.name, ttl |-> "15m",
   video |-> VideoGrantOf(room),
   roomConfig |-> IF Truthy(agent)
                  THEN [t |-> "RoomConfiguration", agents |-> <<[agentName |-> agent]>>]
                  ELSE Undefined]

\* The string at.toJwt() resolves with: the signed encoding of the token.
Jwt(token) == [t |-> "string", jwt |-> token]

\* NextResponse.json(data, init)
NextResponseJson(data, status, headers) ==
  [status |-> status, headers |-> headers, body |-> data]

connectionDetails_identity(l, token) ==
  NextResponseJson([serverUrl |-> l.LIVEKIT_URL, roomName |-> l.roomName,
                    participantName |-> l.participantIdentity,
                    participantToken |-> token],
                   200, {<<"Cache-Control", "no-store">>})

\* const data: ConnectionDetails = {...}; return NextResponse.json(data, ...)
connectionDetails(l, token) ==
  NextResponseJson([serverUrl |-> l.LIVEKIT_URL, roomName |-> l.roomName,
                    participantName |-> l.participantName,
                    participantToken |-> token],
                   200, {<<"Cache-Control", "no-store">>})

handleCatch_noMessage(err) ==
  Returned(NextResponseJson([error |-> JStr("connection-details-failed")], 500, {}))

\* catch (err) { message = err instanceof Error ? err.message : String(err); ... }
handleCatch(err) ==
  LET message == IF err.t = "error" THEN err.message ELSE JSString(err)
  IN  Returned(NextResponseJson([error |-> JStr("connection-details-failed"),
                                 message |-> JStr(message)], 500, {}))

(***************************************************************************)
(* handle(req), in the steps its awaits cut it into.                       *)
(***************************************************************************)
\* Math.floor(Math.random() * 10_000)
RandomDraws == 0 .. (IF RandBound < RandomRange THEN RandBound ELSE RandomRange - 1)

\* The catch clause of handle: the response it returns, or the error it
\* lets escape.
Caught(err) ==
  LET r == handleCatch(err)
  IN  /\ rpc' = "done"
      /\ outcome' = IF r.threw THEN "threw" ELSE "returned"
      /\ response' = IF r.threw THEN NoResponse ELSE r.value

\* const participantName ...; const participantToken = await
\* createParticipantToken(...): builds the token and calls at.toJwt().
\* priorCalls is the number of toJwt() calls this request made before.
StartSigning(l, agent, priorCalls) ==
  \E n1 \in RandomDraws, n2 \in RandomDraws :
    LET participantName == JStr("user")
        participantIdentity == JStr("voice_assistant_user_" \o ToString(n1))
        roomName == JStr("voice_assistant_room_" \o ToString(n2))
    IN  /\ locals' = [l EXCEPT !.participantName = participantName,
                                !.participantIdentity = participantIdentity,
                                !.roomName = roomName]
        /\ agentName' = agent
        /\ at' = createParticipantToken(
                   [identity |-> participantIdentity, name |-> participantName],
                   roomName, agent, l.API_KEY, l.API_SECRET)
        /\ signerCalls' = priorCalls + 1
        /\ rpc' = "jwt"

\* A request arrives: handle runs to its first await or to its return.
HandleEnter(req, env) ==
  /\ rpc = "idle"
  /\ UNCHANGED trackVars
  /\ request' = req
  /\ environ' = env
  /\ signerOutcome' = "none"
  /\ LET u == requireEnv(env, "LIVEKIT_URL")
         k == requireEnv(env, "LIVEKIT_API_KEY")
         s == requireEnv(env, "LIVEKIT_API_SECRET")
     IN  IF u.threw \/ k.threw \/ s.threw
         THEN /\ Caught(IF u.threw THEN u.err ELSE IF k.threw THEN k.err ELSE s.err)
              /\ locals' = NoLocals
              /\ agentName' = Undefined
              /\ at' = NoToken
              /\ bodyReads' = 0
              /\ signerCalls' = 0
         ELSE LET l == [NoLocals EXCEPT !.LIVEKIT_URL = u.value,
                                         !.API_KEY = k.value,
                                         !.API_SECRET = s.value]
              IN  /\ outcome' = "none"
                  /\ response' = NoResponse
                  /\ IF req.method = "POST"
                     THEN /\ rpc' = "json"
                          /\ bodyReads' = 1
                          /\ locals' = l
                          /\ agentName' = Undefined
                          /\ at' = NoToken
                          /\ signerCalls' = 0
                     ELSE /\ bodyReads' = 0
                          /\ StartSigning(l, queryAgentName(req), 0)

\* await req.json() settles; the body's agent is extracted and the token
\* is built and handed to the signer.
JsonSettles ==
  /\ rpc = "json"
  /\ LET b == readBody(request.body)
     IN  IF b.threw
         THEN /\ Caught(b.err)
              /\ UNCHANGED <<locals, agentName, at, signerCalls>>
         ELSE /\ StartSigning(locals, getAgentNameFromBody(b.value), signerCalls)
              /\ UNCHANGED <<outcome, response>>
  /\ UNCHANGED <<request, environ, bodyReads, signerOutcome>>
  /\ UNCHANGED trackVars

\* What at.toJwt() can settle with.
SignerOutcomes == {"resolved", "rejectedError", "rejectedOther"}

\* await createParticipantToken(...) settles.
JwtSettles(o) ==
  /\ rpc = "jwt"
  /\ signerOutcome' = o
  /\ CASE o = "resolved" ->
            /\ rpc' = "done"
            /\ outcome' = "returned"
            /\ response' = connectionDetails(locals, Jwt(at))
       [] o = "rejectedError" -> Caught(JError("signing failed"))
       [] o = "rejectedOther" -> Caught(JStr("signing failed"))
  /\ UNCHANGED <<request, environ, agentName, at, bodyReads, signerCalls, locals>>
  /\ UNCHANGED trackVars

\* The response has gone out; handle keeps nothing between requests, so
\* the next request finds what the first one found.
ResponseSent ==
  /\ rpc = "done"
  /\ rpc' = "idle"
  /\ request' = NoRequest
  /\ environ' = NoEnv
  /\ agentName' = Undefined
  /\ at' = NoToken
  /\ bodyReads' = 0
  /\ signerCalls' = 0
  /\ signerOutcome' = "none"
  /\ outcome' = "none"
  /\ response' = NoResponse
  /\ locals' = NoLocals
  /\ UNCHANGED trackVars

RouteInit ==
  /\ rpc = "idle"
  /\ request = NoRequest
  /\ environ = NoEnv
  /\ agentName = Undefined
  /\ at = NoToken
  /\ bodyReads = 0
  /\ signerCalls = 0
  /\ signerOutcome = "none"
  /\ outcome = "none"
  /\ response = NoResponse
  /\ locals = NoLocals

\* The requests the model sends: a GET carries no body.
Requests ==
  {[method |-> "GET", query |-> q, body |-> [kind |-> "empty"]] : q \in QueryValues}
  \cup {[method |-> "POST", query |-> q, body |-> RawBodies[i]] :
          q \in QueryValues, i \in 1..Len(RawBodies)}

RouteNext ==
  \/ \E req \in Requests, env \in Envs : HandleEnter(req, env)
  \/ JsonSettles
  \/ \E o \in SignerOutcomes : JwtSettles(o)
  \/ ResponseSent


(***************************************************************************)
(* Properties of the endpoint (checked under RouteSpec).                   *)
(***************************************************************************)
IsSuccessResponse(r) ==
  /\ r.status = 200
  /\ DOMAIN r.body = {"serverUrl", "roomName", "participantName", "participantToken"}

IsErrorResponse(r) ==
  /\ r.status = 500
  /\ {"error", "message"} \subseteq DOMAIN r.body
  /\ r.body.error = JStr("connection-details-failed")
  /\ r.body.message.t = "string"

Missing(v) == v.t = "undefined" \/ (v.t = "string" /\ v.v = "")
EnvValid(env) == ~Missing(env.url) /\ ~Missing(env.key) /\ ~Missing(env.secret)
FirstMissing(env) ==
  IF Missing(env.url) THEN "LIVEKIT_URL"
  ELSE IF Missing(env.key) THEN "LIVEKIT_API_KEY"
  ELSE "LIVEKIT_API_SECRET"
SignerRejected == signerOutcome \in {"rejectedError", "rejectedOther"}

\* C1: whatever the request, the environment and the signer's outcome,
\* handle never throws, and what it returns is either the success body with
\* exactly serverUrl, roomName, participantName, participantToken or the
\* status-500 body with error = 'connection-details-failed' and a message
\* string.
C1_AlwaysJson ==
  /\ outcome # "threw"
  /\ rpc = "done" =>
       /\ outcome = "returned"
       /\ IsSuccessResponse(response) \/ IsErrorResponse(response)
       /\ IsSuccessResponse(response) <=>
            (EnvValid(environ) /\ signerOutcome = "resolved")

C1_Witness ==
  /\ rpc = "done"
  /\ signerOutcome = "rejectedOther"
  /\ request.method = "POST"
  /\ request.body.kind = "malformed"
  /\ IsErrorResponse(response)

\* C2 as stated: the participant value of a successful response is the
\* identity the token was signed for.
C2_ParticipantIsSignedIdentity ==
  (rpc = "done" /\ IsSuccessResponse(response)) =>
    response.body.participantName = at.identity

\* C2 as amended: the participant value of a successful response is the
\* participant name the token was signed with ('user'); the signed identity
\* is a different value and is in no field of the response.
C2_ParticipantIsSignedName ==
  (rpc = "done" /\ IsSuccessResponse(response)) =>
    /\ response.body.participantName = at.name
    /\ at.name = JStr("user")
    /\ at.identity.t = "string"
    /\ at.identity.v # at.name.v
    /\ response.body.serverUrl.v # at.identity.v
    /\ response.body.roomName.v # at.identity.v

C2_Witness ==
  /\ rpc = "done"
  /\ IsSuccessResponse(response)
  /\ at.identity = JStr("voice_assistant_user_1")
  /\ response.body.participantToken = Jwt(at)

\* C3: every token handed to the signer is made with the configured key
\* and secret, a 15-minute ttl and one video grant with roomJoin,
\* canPublish, canPublishData and canSubscribe for one room; a successful
\* response carries that token, that room and LIVEKIT_URL.
C3_TokenGrant ==
  at.t = "AccessToken" =>
    /\ EnvValid(environ)
    /\ at.apiKey = environ.key
    /\ at.apiSecret = environ.secret
    /\ at.ttl = "15m"
    /\ at.video.roomJoin /\ at.video.canPublish
    /\ at.video.canPublishData /\ at.video.canSubscribe
    /\ at.video.room.t = "string"
    /\ (rpc = "done" /\ IsSuccessResponse(response)) =>
         /\ response.body.participantToken = Jwt(at)
         /\ response.body.roomName = at.video.room
         /\ response.body.serverUrl = environ.url

C3_Witness ==
  /\ rpc = "done"
  /\ IsSuccessResponse(response)
  /\ at.video.room = JStr("voice_assistant_room_0")
  /\ at.identity = JStr("voice_assistant_user_1")

\* C4: with LIVEKIT_URL, LIVEKIT_API_KEY or LIVEKIT_API_SECRET unset or
\* empty, the request ends at once in the status-500 error whose message
\* names the first missing variable, without reading the body and without
\* building or signing a token.
C4_FailFast ==
  (rpc # "idle" /\ ~EnvValid(environ)) =>
    /\ rpc = "done"
    /\ IsErrorResponse(response)
    /\ response.body.message = JStr(FirstMissing(environ) \o " is not defined")
    /\ bodyReads = 0
    /\ signerCalls = 0
    /\ at = NoToken

C4_Witness ==
  /\ rpc = "done"
  /\ environ.url.t = "string" /\ environ.url.v # ""
  /\ environ.key = JStr("")
  /\ environ.secret = Undefined
  /\ request.method = "POST"
  /\ request.body.kind = "json"
  /\ response.body.message = JStr("LIVEKIT_API_KEY is not defined")

\* The agents a request names, read off the request as the claim words it:
\* the agentName query value of a GET, room_config.agents[0].agent_name of
\* a POST body, when that is a non-empty string.
NamedAgents(req) ==
  IF req.method = "GET"
  THEN IF req.query.t = "string" /\ req.query.v # "" THEN {req.query.v} ELSE {}
  ELSE IF req.body.kind # "json" THEN {}
  ELSE LET b == req.body.json
       IN  IF b.t # "object" \/ "room_config" \notin b.k THEN {}
           ELSE LET rc == b.v.room_config
                IN  IF rc.t # "object" \/ "agents" \notin rc.k THEN {}
                    ELSE LET ag == rc.v.agents
                         IN  IF ag.t # "array" \/ ag.v = <<>> THEN {}
                             ELSE LET f == Head(ag.v)
                                  IN  IF f.t # "object" \/ "agent_name" \notin f.k THEN {}
                                      ELSE IF f.v.agent_name.t # "string" THEN {}
                                      ELSE IF f.v.agent_name.v = "" THEN {}
                                      ELSE {f.v.agent_name.v}

\* C5: the token has a room configuration, with exactly one agent bearing
\* the requested name, exactly when the request names a non-empty agent;
\* otherwise it has none, and with a valid environment and a signer that
\* does not reject the request succeeds.
C5_AgentConfig ==
  /\ at.t = "AccessToken" =>
       /\ NamedAgents(request) = {} => at.roomConfig.t = "undefined"
       /\ \A n \in NamedAgents(request) :
            /\ at.roomConfig.t = "RoomConfiguration"
            /\ at.roomConfig.agents = <<[agentName |-> JStr(n)]>>
  /\ (rpc = "done" /\ EnvValid(environ) /\ ~SignerRejected) =>
       /\ IsSuccessResponse(response)
       /\ response.body.participantToken = Jwt(at)

C5_Witness ==
  /\ rpc = "done"
  /\ request.method = "POST"
  /\ NamedAgents(request) = {"agentA"}
  /\ IsSuccessResponse(response)
  /\ response.body.participantToken.jwt.roomConfig.agents = <<[agentName |-> JStr("agentA")]>>

\* C6: a POST whose body is empty or is no JSON is handled as a request
\* that names no agent: with a valid environment and a signer that does not
\* reject, it ends in the success response, its token without a room
\* configuration.
C6_BadBodyTolerated ==
  (/\ rpc = "done"
   /\ request.method = "POST"
   /\ request.body.kind \in {"empty", "malformed"}
   /\ EnvValid(environ)
   /\ ~SignerRejected) =>
    /\ IsSuccessResponse(response)
    /\ bodyReads = 1
    /\ response.body.participantToken = Jwt(at)
    /\ at.roomConfig.t = "undefined"

C6_Witness ==
  /\ rpc = "done"
  /\ request.method = "POST"
  /\ request.body.kind = "malformed"
  /\ request.query = JStr("agentQ")
  /\ IsSuccessResponse(response)
  /\ response.body.participantToken.jwt.roomConfig.t = "undefined"

(***************************************************************************)
(* createLocalTrack: the local-track adapter.                              *)
(***************************************************************************)
\* Bounds: the number of initialize/teardown calls and of set / toggle /
\* waitUntilNotPending calls the model makes on one adapter.
MaxLifecycleCalls == 3
MaxCalls == 2

\* Track.Source values the adapter handles.
Sources == {"camera", "microphone", "screen_share"}

\* The nine events initialize subscribes to on the local participant.
participantEvents ==
  <<"trackMuted", "trackUnmuted", "participantPermissionsChanged",
    "trackPublished", "trackUnpublished", "localTrackPublished",
    "localTrackUnpublished", "mediaDevicesError",
    "trackSubscriptionStatusChanged">>
ParticipantEventNames == {participantEvents[i] : i \in 1..Len(participantEvents)}

mediaDeviceKind_screenAsVideo(src) ==
  CASE src = "microphone" -> JStr("audioinput")
    [] OTHER -> JStr("videoinput")

\* let mediaDeviceKind = null; switch (options.trackSource) ...
mediaDeviceKind(src) ==
  CASE src = "camera" -> JStr("videoinput")
    [] src = "microphone" -> JStr("audioinput")
    [] OTHER -> Null

\* The runtimes the adapter can be created in: a browser page in a secure
\* context, a page in an insecure context (no navigator.mediaDevices), a
\* window-less runtime with a navigator global but no media devices, and a
\* window-less runtime without a navigator global.
Platforms ==
  {[name |-> "browser", window |-> TRUE, isSecureContext |-> TRUE,
    navigator |-> TRUE, mediaDevices |-> TRUE],
   [name |-> "insecure", window |-> TRUE, isSecureContext |-> FALSE,
    navigator |-> TRUE, mediaDevices |-> FALSE],
   [name |-> "worker", window |-> FALSE, isSecureContext |-> FALSE,
    navigator |-> TRUE, mediaDevices |-> FALSE],
   [name |-> "bare", window |-> FALSE, isSecureContext |-> FALSE,
    navigator |-> FALSE, mediaDevices |-> FALSE]}
BrowserPlatform == CHOOSE p \in Platforms : p.name = "browser"

\* What localParticipant.getTrackPublication(source) can return: nothing,
\* or a publication whose dimensions are unknown, partly known, wide, tall
\* or square.
Dimensions(w, h) == [t |-> "object", width |-> w, height |-> h]
Publication(dims) == [t |-> "publication", dimensions |-> dims]
Publications ==
  {Undefined,
   Publication(Undefined),
   Publication(Dimensions(Undefined, JNum(1))),
   Publication(Dimensions(JNum(2), JNum(1))),
   Publication(Dimensions(JNum(1), JNum(2))),
   Publication(Dimensions(JNum(2), JNum(2)))}

\* The three enablement getters of the local participant.
getterKey(src) ==
  CASE src = "camera" -> "isCameraEnabled"
    [] src = "microphone" -> "isMicrophoneEnabled"
    [] src = "screen_share" -> "isScreenShareEnabled"
GetterKeys == {getterKey(src) : src \in Sources}

\* loadUserChoices(): the stored preferences, here the library defaults.
LoadedUserChoices ==
  [videoEnabled |-> TRUE, audioEnabled |-> TRUE,
   videoDeviceId |-> "default", audioDeviceId |-> "default", username |-> ""]


\* a ?? b
NullishOr(a, b) == IF a.t \in {"undefined", "null"} THEN b ELSE a

\* publication?.dimensions
dimensionsOf(publication) ==
  IF publication.t \in {"undefined", "null"} THEN Undefined
  ELSE publication.dimensions

orientationOf_geq(publication) ==
  LET d == dimensionsOf(publication)
  IN  IF d.t = "object" /\ d.width.t = "number" /\ d.height.t = "number"
      THEN IF d.width.v >= d.height.v THEN JStr("landscape") ELSE JStr("portrait")
      ELSE Null

\* let orientation = null; if (typeof width === 'number' && typeof height
\* === 'number') orientation = width > height ? 'landscape' : 'portrait'
orientationOf(publication) ==
  LET d == dimensionsOf(publication)
  IN  IF d.t = "object" /\ d.width.t = "number" /\ d.height.t = "number"
      THEN IF d.width.v > d.height.v THEN JStr("landscape") ELSE JStr("portrait")
      ELSE Null

\* The state handleParticipantEvent stores: old with enabled, dimensions,
\* orientation and subtle.publication read from the SDK.
handleParticipantEvent(old, src, flags, publication) ==
  [old EXCEPT !.enabled = flags[getterKey(src)],
              !.dimensions = NullishOr(dimensionsOf(publication), Null),
              !.orientation = orientationOf(publication),
              !.publication = NullishOr(publication, Null)]

\* The object createLocalTrack returns.
createLocalTrack(src, publication) ==
  [source |-> src,
   enabled |-> FALSE,
   pending |-> FALSE,
   devices |-> IF mediaDeviceKind(src).t # "null"
               THEN [t |-> "object", kind |-> mediaDeviceKind(src).v,
                     activeId |-> "default", list |-> <<>>]
               ELSE Undefined,
   dimensions |-> Null,
   orientation |-> Null,
   publication |-> NullishOr(publication, Null),
   userChoices |-> LoadedUserChoices]

\* EventEmitter.off removes one registration of the listener, if any.
OffOnce(n) == IF n > 0 THEN n - 1 ELSE 0

\* An invocation of listDevices(requestPermissions), made by
\* handleDeviceChange or by a caller of devices.subtle.listDevices.  Without
\* a media-device kind it throws before asking the platform; otherwise it
\* awaits Room.getLocalDevices(mediaDeviceKind, requestPermissions).
NewEnum(by, src, requestPermissions) ==
  IF mediaDeviceKind(src).t = "null"
  THEN [by |-> by, kind |-> Null, requestPermissions |-> requestPermissions,
        asked |-> FALSE, pc |-> "rejected", ret |-> <<>>,
        err |-> JError("Unable to list devices"), emits |-> <<>>]
  ELSE [by |-> by, kind |-> mediaDeviceKind(src),
        requestPermissions |-> requestPermissions,
        asked |-> TRUE, pc |-> "pending", ret |-> <<>>,
        err |-> Undefined, emits |-> <<>>]

\* subtle.initialize()
Initialize ==
  /\ Len(lifecycle) < MaxLifecycleCalls
  /\ lifecycle' = Append(lifecycle, "initialize")
  /\ st' = handleParticipantEvent(st, source, sdkEnabled, sdkPublication)
  /\ partListeners' = [e \in ParticipantEventNames |-> partListeners[e] + 1]
  /\ IF mediaDeviceKind(source).t = "null"
     THEN UNCHANGED <<enums, deviceChangeListener, roomListeners>>
     ELSE \* handleDeviceChange() runs to its await of Room.getLocalDevices
          /\ enums' = Append(enums, NewEnum("handleDeviceChange", source, FALSE))
          /\ IF platform.window /\ ~platform.isSecureContext
             THEN \* throw new Error('Accessing media devices is available only ...')
                  UNCHANGED <<deviceChangeListener, roomListeners>>
             ELSE /\ deviceChangeListener' =
                       (deviceChangeListener \/ (platform.window /\ platform.mediaDevices))
                  /\ roomListeners' = roomListeners + 1
  /\ UNCHANGED routeVars
  /\ UNCHANGED <<source, platform, sdkEnabled, sdkPublication, calls, waiters,
                 preventUserChoicesSave, changes>>

\* subtle.teardown()
Teardown ==
  /\ Len(lifecycle) < MaxLifecycleCalls
  /\ lifecycle' = Append(lifecycle, "teardown")
  /\ partListeners' = [e \in ParticipantEventNames |-> OffOnce(partListeners[e])]
  /\ IF mediaDeviceKind(source).t = "null"
     THEN UNCHANGED <<deviceChangeListener, roomListeners>>
     ELSE IF ~platform.navigator
          THEN \* navigator?.mediaDevices: ReferenceError, navigator is not defined
               UNCHANGED <<deviceChangeListener, roomListeners>>
          ELSE /\ deviceChangeListener' = FALSE
               /\ roomListeners' = OffOnce(roomListeners)
  /\ UNCHANGED routeVars
  /\ UNCHANGED <<source, platform, sdkEnabled, sdkPublication, st, enums, calls,
                 waiters, preventUserChoicesSave, changes>>

\* The SDK's own state moves: one enablement getter flips.
SdkEnabledChanges(key) ==
  /\ sdkEnabled' = [sdkEnabled EXCEPT ![key] = ~sdkEnabled[key]]
  /\ UNCHANGED routeVars
  /\ UNCHANGED <<source, platform, sdkPublication, st, partListeners,
                 deviceChangeListener, roomListeners, enums, lifecycle, calls,
                 waiters, preventUserChoicesSave, changes>>

\* The SDK's own state moves: the source's publication is replaced.
SdkPublicationChanges(publication) ==
  /\ publication # sdkPublication
  /\ sdkPublication' = publication
  /\ UNCHANGED routeVars
  /\ UNCHANGED <<source, platform, sdkEnabled, st, partListeners,
                 deviceChangeListener, roomListeners, enums, lifecycle, calls,
                 waiters, preventUserChoicesSave, changes>>

\* The local participant emits one of the subscribed events: every
\* registration of handleParticipantEvent runs.
ParticipantEventFires(e) ==
  /\ partListeners[e] > 0
  /\ st' = handleParticipantEvent(st, source, sdkEnabled, sdkPublication)
  /\ UNCHANGED routeVars
  /\ UNCHANGED <<source, platform, sdkEnabled, sdkPublication, partListeners,
                 deviceChangeListener, roomListeners, enums, lifecycle, calls,
                 waiters, preventUserChoicesSave, changes>>

\* The adapter as createLocalTrack leaves it, over a room in the given state.
TrackInit(src, plat, flags, publication, prevent) ==
  /\ source = src
  /\ platform = plat
  /\ sdkEnabled = flags
  /\ sdkPublication = publication
  /\ st = createLocalTrack(src, publication)
  /\ partListeners = [e \in ParticipantEventNames |-> 0]
  /\ deviceChangeListener = FALSE
  /\ roomListeners = 0
  /\ enums = <<>>
  /\ lifecycle = <<>>
  /\ calls = <<>>
  /\ waiters = <<>>
  /\ preventUserChoicesSave = prevent
  /\ changes = <<>>

AllDisabled == [k \in GetterKeys |-> FALSE]

\* The endpoint alone: the adapter stays as constructed.
RouteStart ==
  /\ RouteInit
  /\ TrackInit("camera", BrowserPlatform, AllDisabled, Undefined, FALSE)

RouteSpec == RouteStart /\ [][RouteNext]_vars

LifecycleInit ==
  /\ RouteInit
  /\ \E src \in Sources, plat \in Platforms, flags \in [GetterKeys -> BOOLEAN],
        publication \in Publications :
        TrackInit(src, plat, flags, publication, FALSE)

LifecycleNext ==
  \/ Initialize
  \/ Teardown
  \/ \E key \in GetterKeys : SdkEnabledChanges(key)
  \/ \E publication \in Publications : SdkPublicationChanges(publication)
  \/ \E e \in ParticipantEventNames : ParticipantEventFires(e)

LifecycleSpec == LifecycleInit /\ [][LifecycleNext]_vars

(***************************************************************************)
(* set / toggle.  A call of setEnabled is cut by its two awaits: after     *)
(* `await waitUntilNotPending()` it is "ready" (continuation queued) or    *)
(* "waiting" (listener on PendingDisabled); after issuing the SDK call it  *)
(* is "inflight"; it ends "resolved" or "rejected".  A direct call of      *)
(* waitUntilNotPending (op "wait") is "waiting" until its promise resolves *)
(* and then "returned".                                                    *)
(*                                                                         *)
(* Continuations run in the order they were queued.  A call that found     *)
(* pending false queued its continuation during the call itself; the       *)
(* continuation that follows an SDK promise is queued only after that SDK  *)
(* call was issued.  So such a call resumes before any call that entered   *)
(* after it, and before the settling of any SDK call that was not yet in   *)
(* flight when it entered (`seen` holds the ones that were).  A call woken *)
(* by PendingDisabled is no longer `fresh` and is not ordered this way.    *)
(***************************************************************************)
NewCall(op, x, pc) ==
  [op |-> op, x |-> x, pc |-> pc, ret |-> FALSE, err |-> Undefined,
   emits |-> <<>>, saves |-> <<>>, fresh |-> TRUE,
   seen |-> {i \in 1..Len(calls) : calls[i].pc = "inflight"}]

Range(seq) == {seq[k] : k \in 1..Len(seq)}
CallIds == 1..Len(calls)
\* Calls whose continuation was queued by the call itself and has not run.
FreshReady == {i \in CallIds : calls[i].pc = "ready" /\ calls[i].fresh}
InFlight == {i \in CallIds : calls[i].pc = "inflight"}

\* waitUntilNotPending(): returns at once when get().pending is false,
\* otherwise a promise that onceEventOccurred resolves on PendingDisabled.
waitUntilNotPending(s) == IF ~s.pending THEN "ready" ELSE "waiting"

enabledChoiceKey_swapped(src) ==
  CASE src = "camera" -> JStr("audioEnabled")
    [] src = "microphone" -> JStr("videoEnabled")
    [] OTHER -> Undefined

\* The userChoices key a successful set updates: the switch after the await.
enabledChoiceKey(src) ==
  CASE src = "camera" -> JStr("videoEnabled")
    [] src = "microphone" -> JStr("audioEnabled")
    [] OTHER -> Undefined

\* updateUserChoices(key, value): the state it stores.
updateUserChoices(old, key, value) ==
  [old EXCEPT !.userChoices = [@ EXCEPT ![key] = value]]

\* The state after a setEnabled whose SDK call resolved: finally { pending:
\* false }, updateUserChoices for camera and microphone, then enabled.
setEnabledResolved(old, src, x) ==
  LET s1 == [old EXCEPT !.pending = FALSE]
      s2 == IF enabledChoiceKey(src).t = "string"
            THEN updateUserChoices(s1, enabledChoiceKey(src).v, x)
            ELSE s1
  IN  [s2 EXCEPT !.enabled = x]

setEnabledRejected_pendingKept(old) == old

\* The state after a setEnabled whose SDK call rejected: finally { pending: false }.
setEnabledRejected(old) == [old EXCEPT !.pending = FALSE]

\* set(enabled) / toggle() is called: setEnabled runs to its first await.
EnterSetEnabled(op, x) ==
  /\ Len(calls) < MaxCalls
  /\ calls' = Append(calls, NewCall(op, x, waitUntilNotPending(st)))
  /\ waiters' = IF waitUntilNotPending(st) = "waiting"
                THEN Append(waiters, Len(calls) + 1)
                ELSE waiters
  /\ UNCHANGED routeVars
  /\ UNCHANGED <<source, platform, sdkEnabled, sdkPublication, st, partListeners,
                 deviceChangeListener, roomListeners, enums, lifecycle,
                 preventUserChoicesSave, changes>>

CallSet(x) == EnterSetEnabled("set", x)

\* toggleEnabled: setEnabled(!get().enabled, ...)
CallToggle == EnterSetEnabled("toggle", ~st.enabled)

\* A caller calls track.waitUntilNotPending() with no abort signal.
CallWait ==
  /\ Len(calls) < MaxCalls
  /\ calls' = Append(calls,
                     [NewCall("wait", FALSE,
                              IF waitUntilNotPending(st) = "ready"
                              THEN "returned" ELSE "waiting")
                        EXCEPT !.fresh = FALSE, !.seen = {}])
  /\ waiters' = IF waitUntilNotPending(st) = "waiting"
                THEN Append(waiters, Len(calls) + 1)
                ELSE waiters
  /\ UNCHANGED routeVars
  /\ UNCHANGED <<source, platform, sdkEnabled, sdkPublication, st, partListeners,
                 deviceChangeListener, roomListeners, enums, lifecycle,
                 preventUserChoicesSave, changes>>

\* The continuation after `await waitUntilNotPending()`: pending becomes
\* true and the SDK's set<Source>Enabled(enabled) is called.
Resume(i) ==
  /\ calls[i].pc = "ready"
  /\ \A j \in FreshReady : calls[i].fresh => j >= i
  /\ st' = [st EXCEPT !.pending = TRUE]
  /\ calls' = [calls EXCEPT ![i].pc = "inflight", ![i].fresh = FALSE,
                             ![i].seen = {}]
  /\ UNCHANGED routeVars
  /\ UNCHANGED <<source, platform, sdkEnabled, sdkPublication, partListeners,
                 deviceChangeListener, roomListeners, enums, lifecycle, waiters,
                 preventUserChoicesSave, changes>>

\* What the SDK's set<Source>Enabled promise can settle with.
SdkOutcomes == {"resolved", "rejectedError", "rejectedOther"}

\* The value a rejected SDK promise carries: an Error, or something that is
\* not an instance of Error.
SdkRejection(o) ==
  IF o = "rejectedError" THEN JError("setEnabled failed")
  ELSE JStr("setEnabled failed")

\* The SDK call of call i settles and setEnabled runs to its end.
SdkSettles(i, o) ==
  /\ calls[i].pc = "inflight"
  /\ \A j \in FreshReady : i \in calls[j].seen
  /\ CASE o = "resolved" ->
            /\ st' = setEnabledResolved(st, source, calls[i].x)
            /\ calls' =
                 [j \in CallIds |->
                    IF j = i
                    THEN [calls[j] EXCEPT
                            !.pc = "resolved",
                            !.ret = sdkEnabled[getterKey(source)],
                            !.saves =
                              IF enabledChoiceKey(source).t = "string"
                              THEN <<[choices |-> setEnabledResolved(st, source, calls[i].x).userChoices,
                                      preventSave |-> preventUserChoicesSave]>>
                              ELSE <<>>,
                            !.emits = <<[name |-> "pendingDisabled"]>>]
                    ELSE IF j \in Range(waiters)
                    THEN \* emit(PendingDisabled): onceEventOccurred resolves
                         [calls[j] EXCEPT !.pc = IF calls[j].op = "wait"
                                                 THEN "returned" ELSE "ready",
                                          !.fresh = FALSE, !.seen = {}]
                    ELSE calls[j]]
            /\ waiters' = <<>>
       [] o = "rejectedError" ->
            /\ st' = setEnabledRejected(st)
            /\ calls' = [calls EXCEPT
                           ![i].pc = "rejected",
                           ![i].err = SdkRejection(o),
                           ![i].emits = <<[name |-> "deviceError",
                                           err |-> SdkRejection(o),
                                           source |-> source]>>]
            /\ UNCHANGED waiters
       [] o = "rejectedOther" ->
            /\ st' = setEnabledRejected(st)
            /\ calls' = [calls EXCEPT ![i].pc = "rejected",
                                      ![i].err = SdkRejection(o)]
            /\ UNCHANGED waiters
  /\ UNCHANGED routeVars
  /\ UNCHANGED <<source, platform, sdkEnabled, sdkPublication, partListeners,
                 deviceChangeListener, roomListeners, enums, lifecycle,
                 preventUserChoicesSave, changes>>

\* The adapter is initialized at most once while callers use it.
InitializeOnce == lifecycle = <<>> /\ Initialize

\* The SDK's enablement of the adapter's own source moves.
OwnSdkEnabledChanges == SdkEnabledChanges(getterKey(source))

\* The participant events the SDK emits around an enable/disable.
SetEvents == {"localTrackPublished", "trackMuted"}

TrackStart ==
  /\ RouteInit
  /\ \E src \in Sources, own \in BOOLEAN, prevent \in BOOLEAN :
        TrackInit(src, BrowserPlatform,
                  [k \in GetterKeys |-> (k = getterKey(src)) /\ own],
                  Undefined, prevent)

TrackNext ==
  \/ InitializeOnce
  \/ \E x \in BOOLEAN : CallSet(x)
  \/ CallToggle
  \/ CallWait
  \/ \E i \in CallIds : Resume(i)
  \/ \E i \in CallIds, o \in SdkOutcomes : SdkSettles(i, o)
  \/ OwnSdkEnabledChanges
  \/ \E e \in SetEvents : ParticipantEventFires(e)

TrackSpec == TrackStart /\ [][TrackNext]_vars

\* The same, with what the event loop and the SDK guarantee: a queued
\* continuation of setEnabled runs, and an SDK call that was issued settles.
\* No caller is obliged to call set, toggle or waitUntilNotPending again.
TrackLiveSpec ==
  /\ TrackStart
  /\ [][TrackNext]_vars
  /\ WF_vars(\E i \in CallIds : Resume(i))
  /\ WF_vars(\E i \in CallIds, o \in SdkOutcomes : SdkSettles(i, o))

(***************************************************************************)
(* Device list and active device.  handleDeviceChange and listDevices are  *)
(* cut by `await Room.getLocalDevices(...)`, changeActiveDevice by `await  *)
(* room.switchActiveDevice(...)`; the platform and the SDK settle the      *)
(* promises in any order.                                                  *)
(***************************************************************************)
\* Bound: the number of device operations (listDevices invocations by
\* handleDeviceChange or by a caller, and changeActive calls) that are made
\* on one adapter.
MaxDeviceCalls == 2
DeviceCalls == Len(enums) + Len(changes)

\* A MediaDeviceInfo.
Device(id, kind) == [deviceId |-> id, kind |-> kind]

\* What the platform's device enumeration can report: nothing, devices with
\* an empty deviceId (permission not granted yet), and devices of both kinds.
PlatformEnumerations ==
  {<<>>,
   <<Device("", "videoinput"), Device("m1", "audioinput")>>,
   <<Device("c1", "videoinput"), Device("", "audioinput")>>,
   <<Device("c1", "videoinput"), Device("", "videoinput"),
     Device("c2", "videoinput"), Device("m1", "audioinput"),
     Device("", "audioinput"), Device("m2", "audioinput")>>}

\* Room.getLocalDevices(kind, requestPermissions): the devices of that kind.
getLocalDevices(enumeration, kind) ==
  SelectSeq(enumeration, LAMBDA d : d.kind = kind)

listDevices_noFilter(enumeration, kind) == getLocalDevices(enumeration, kind)

\* listDevices: devices.filter(d => d.deviceId !== '')
listDevices(enumeration, kind) ==
  SelectSeq(getLocalDevices(enumeration, kind), LAMBDA d : d.deviceId # "")

\* The state handleDeviceChange stores: old with devices.list replaced.
handleDeviceChange(old, list) ==
  [old EXCEPT !.devices = [@ EXCEPT !.list = list]]

\* The value a rejected Room.getLocalDevices / room.switchActiveDevice
\* promise carries: an Error, or something that is not an instance of Error.
PlatformRejection(o) ==
  IF o = "rejectedError" THEN JError("device failure")
  ELSE JStr("device failure")

\* mediaDevices emits 'devicechange': the registered handleDeviceChange runs
\* to its await.
DeviceChangeFires ==
  /\ deviceChangeListener
  /\ DeviceCalls < MaxDeviceCalls
  /\ enums' = Append(enums, NewEnum("handleDeviceChange", source, FALSE))
  /\ UNCHANGED routeVars
  /\ UNCHANGED <<source, platform, sdkEnabled, sdkPublication, st, partListeners,
                 deviceChangeListener, roomListeners, lifecycle, calls, waiters,
                 preventUserChoicesSave, changes>>

\* The room emits ActiveDeviceChanged: every registration of
\* handleDeviceChange runs to its await.
ActiveDeviceChangedFires ==
  /\ roomListeners > 0
  /\ DeviceCalls + roomListeners <= MaxDeviceCalls
  /\ enums' = enums \o [k \in 1..roomListeners |->
                          NewEnum("handleDeviceChange", source, FALSE)]
  /\ UNCHANGED routeVars
  /\ UNCHANGED <<source, platform, sdkEnabled, sdkPublication, st, partListeners,
                 deviceChangeListener, roomListeners, lifecycle, calls, waiters,
                 preventUserChoicesSave, changes>>

\* A caller calls listDevices(requestPermissions).
CallListDevices(requestPermissions) ==
  /\ DeviceCalls < MaxDeviceCalls
  /\ enums' = Append(enums, NewEnum("listDevices", source, requestPermissions))
  /\ UNCHANGED routeVars
  /\ UNCHANGED <<source, platform, sdkEnabled, sdkPublication, st, partListeners,
                 deviceChangeListener, roomListeners, lifecycle, calls, waiters,
                 preventUserChoicesSave, changes>>

\* The Room.getLocalDevices promise of invocation k settles; listDevices
\* returns or throws, and handleDeviceChange, when it is the caller, stores
\* the list or emits DeviceListError.
EnumSettles(k, o, enumeration) ==
  /\ enums[k].pc = "pending"
  /\ o # "resolved" => enumeration = <<>>
  /\ IF o = "resolved"
     THEN /\ enums' = [enums EXCEPT
                         ![k].pc = "resolved",
                         ![k].ret = listDevices(enumeration, enums[k].kind.v)]
          /\ st' = IF enums[k].by = "handleDeviceChange"
                   THEN handleDeviceChange(st, listDevices(enumeration, enums[k].kind.v))
                   ELSE st
     ELSE /\ enums' = [enums EXCEPT
                         ![k].pc = "rejected",
                         ![k].err = PlatformRejection(o),
                         ![k].emits =
                           IF enums[k].by = "handleDeviceChange" /\ o = "rejectedError"
                           THEN <<[name |-> "deviceListError",
                                   err |-> PlatformRejection(o),
                                   source |-> source]>>
                           ELSE <<>>]
          /\ UNCHANGED st
  /\ UNCHANGED routeVars
  /\ UNCHANGED <<source, platform, sdkEnabled, sdkPublication,  partListeners,
                 deviceChangeListener, roomListeners, lifecycle, calls, waiters,
                 preventUserChoicesSave, changes>>

\* The deviceId arguments callers pass to changeActive: none, 'default', a
\* device id, the empty string.
ChangeIds == {Undefined, JStr("default"), JStr("b"), JStr("")}

\* What room.getActiveDevice(kind) can report after a switch: no device,
\* a device other than any requested one, the default device.
ActiveDevices == {Undefined, JStr("a"), JStr("default")}

\* Labels of the published track's mediaStreamTrack, as character sequences.
DefaultPrefix == <<"D", "e", "f", "a", "u", "l", "t">>
TrackLabels ==
  {DefaultPrefix \o <<" ", "-", " ", "M", "i", "c">>,
   <<"d", "e", "f", "a", "u", "l", "t">>}

\* getTrackPublication(source)?.track: no track, or a track with a label.
TargetTracks == {Undefined} \cup {[t |-> "track", label |-> l] : l \in TrackLabels}

\* String.prototype.startsWith
startsWith(str, prefix) ==
  Len(str) >= Len(prefix) /\ SubSeq(str, 1, Len(prefix)) = prefix

\* The userChoices key changeActiveDevice updates.
userChoicesKey(src) ==
  CASE src = "camera" -> JStr("videoDeviceId")
    [] src = "microphone" -> JStr("audioDeviceId")
    [] OTHER -> Undefined

newCurrentDeviceId_actual(id, active, targetTrack) == NullishOr(active, JStr(id))

\* actualDeviceId = getActiveDevice(kind) ?? id; useDefault = (id ===
\* 'default' && !targetTrack) || (id === 'default' && label starts with
\* 'Default'); newCurrentDeviceId = useDefault ? id : actualDeviceId
newCurrentDeviceId(id, active, targetTrack) ==
  LET actualDeviceId == NullishOr(active, JStr(id))
      useDefault ==
        \/ id = "default" /\ targetTrack.t = "undefined"
        \/ /\ id = "default"
           /\ targetTrack.t = "track"
           /\ startsWith(targetTrack.label, DefaultPrefix)
  IN  IF useDefault THEN JStr(id) ELSE actualDeviceId

\* The state after a changeActiveDevice whose switch resolved:
\* if (newCurrentDeviceId) { devices.activeId = it; updateUserChoices(key, id) }
changeActiveDeviceResolved(old, src, id, newId) ==
  IF Truthy(newId)
  THEN updateUserChoices([old EXCEPT !.devices = [@ EXCEPT !.activeId = newId.v]],
                         userChoicesKey(src).v, id)
  ELSE old

\* A call of changeActiveDevice(arg): id defaults to 'default'; without a
\* media-device kind it throws before calling the SDK, otherwise it awaits
\* room.switchActiveDevice(kind, id).
NewChange(src, arg) ==
  [arg |-> arg,
   id |-> IF arg.t = "undefined" THEN "default" ELSE arg.v,
   asked |-> mediaDeviceKind(src).t # "null",
   pc |-> IF mediaDeviceKind(src).t = "null" THEN "rejected" ELSE "switching",
   ret |-> Undefined,
   err |-> IF mediaDeviceKind(src).t = "null"
           THEN JError("Unable to change active device") ELSE Undefined,
   emits |-> <<>>, saves |-> <<>>]

\* A caller calls devices.changeActive(arg).
CallChangeActive(arg) ==
  /\ DeviceCalls < MaxDeviceCalls
  /\ changes' = Append(changes, NewChange(source, arg))
  /\ UNCHANGED routeVars
  /\ UNCHANGED <<source, platform, sdkEnabled, sdkPublication, st, enums, partListeners,
                 deviceChangeListener, roomListeners, lifecycle, calls, waiters,
                 preventUserChoicesSave>>

\* The room.switchActiveDevice promise of call c settles and
\* changeActiveDevice runs to its end, reading the SDK's active device and
\* the source's published track.
SwitchSettles(c, o, active, targetTrack) ==
  /\ changes[c].pc = "switching"
  /\ o # "resolved" => (active = Undefined /\ targetTrack = Undefined)
  /\ IF o = "resolved"
     THEN LET newId == newCurrentDeviceId(changes[c].id, active, targetTrack)
              new == changeActiveDeviceResolved(st, source, changes[c].id, newId)
          IN  /\ st' = new
              /\ changes' = [changes EXCEPT
                               ![c].pc = "resolved",
                               ![c].ret = newId,
                               ![c].saves =
                                 IF Truthy(newId)
                                 THEN <<[choices |-> new.userChoices,
                                         preventSave |-> preventUserChoicesSave]>>
                                 ELSE <<>>]
     ELSE /\ changes' = [changes EXCEPT
                           ![c].pc = "rejected",
                           ![c].err = PlatformRejection(o),
                           ![c].emits =
                             IF o = "rejectedError"
                             THEN <<[name |-> "activeDeviceChangeError",
                                     err |-> PlatformRejection(o),
                                     source |-> source]>>
                             ELSE <<>>]
          /\ UNCHANGED st
  /\ UNCHANGED routeVars
  /\ UNCHANGED <<source, platform, sdkEnabled, sdkPublication, enums, partListeners,
                 deviceChangeListener, roomListeners, lifecycle, calls, waiters,
                 preventUserChoicesSave>>

DeviceStart ==
  /\ RouteInit
  /\ \E src \in Sources :
        TrackInit(src, BrowserPlatform, AllDisabled, Undefined, FALSE)

DeviceNext ==
  \/ InitializeOnce
  \/ DeviceChangeFires
  \/ ActiveDeviceChangedFires
  \/ \E requestPermissions \in BOOLEAN : CallListDevices(requestPermissions)
  \/ \E k \in 1..Len(enums), o \in SdkOutcomes, enumeration \in PlatformEnumerations :
        EnumSettles(k, o, enumeration)
  \/ \E arg \in ChangeIds : CallChangeActive(arg)
  \/ \E c \in 1..Len(changes), o \in SdkOutcomes, active \in ActiveDevices,
        targetTrack \in TargetTracks : SwitchSettles(c, o, active, targetTrack)

DeviceSpec == DeviceStart /\ [][DeviceNext]_vars

(***************************************************************************)
(* Properties of the adapter's lifecycle (checked under LifecycleSpec).    *)
(***************************************************************************)
NoSubscriptions ==
  /\ \A e \in ParticipantEventNames : partListeners[e] = 0
  /\ ~deviceChangeListener
  /\ roomListeners = 0

\* C7: after one initialize followed by one teardown the adapter's handlers
\* are registered on none of the nine participant events, nor on
\* 'devicechange', nor on ActiveDeviceChanged; a screen-share adapter never
\* subscribes to device changes.
C7_TeardownSymmetric ==
  /\ lifecycle = <<"initialize", "teardown">> => NoSubscriptions
  /\ source = "screen_share" => (~deviceChangeListener /\ roomListeners = 0)

\* Where the runtime has a navigator global, teardown undoes initialize.
TeardownSymmetricWithNavigator ==
  (lifecycle = <<"initialize", "teardown">> /\ platform.navigator) => NoSubscriptions

\* The SDK's state for the adapter's source, as the claim words it.
SdkReportsEnabled ==
  CASE source = "camera" -> sdkEnabled["isCameraEnabled"]
    [] source = "microphone" -> sdkEnabled["isMicrophoneEnabled"]
    [] source = "screen_share" -> sdkEnabled["isScreenShareEnabled"]
SdkReportsDimensions ==
  IF sdkPublication.t = "publication" /\ sdkPublication.dimensions.t = "object"
  THEN sdkPublication.dimensions
  ELSE Null
SdkReportsOrientation ==
  LET d == SdkReportsDimensions
  IN  IF d.t = "null" THEN Null
      ELSE IF d.width.t # "number" \/ d.height.t # "number" THEN Null
      ELSE IF d.width.v > d.height.v THEN JStr("landscape")
      ELSE JStr("portrait")
MirrorsSdk ==
  /\ st.enabled = SdkReportsEnabled
  /\ st.publication = (IF sdkPublication.t = "publication" THEN sdkPublication ELSE Null)
  /\ st.dimensions = SdkReportsDimensions
  /\ st.orientation = SdkReportsOrientation

\* C8: every initialize and every run of the handler of a subscribed
\* participant event ends with enabled, subtle.publication, dimensions and
\* orientation mirroring the SDK's state for the adapter's source, and
\* changes neither pending nor devices nor userChoices.
C8_HandlerMirrorsSdk ==
  [][(Initialize \/ \E e \in ParticipantEventNames : ParticipantEventFires(e)) =>
       /\ MirrorsSdk'
       /\ st'.pending = st.pending
       /\ st'.devices = st.devices
       /\ st'.userChoices = st.userChoices
       /\ st'.source = st.source]_vars

\* A handler run has stored a square publication of an enabled microphone.
C8_Witness ==
  /\ source = "microphone"
  /\ partListeners["trackMuted"] = 1
  /\ MirrorsSdk
  /\ st.enabled
  /\ st.dimensions = Dimensions(JNum(2), JNum(2))
  /\ st.orientation = JStr("portrait")
  /\ ~sdkEnabled["isCameraEnabled"]

(***************************************************************************)
(* Properties of set / toggle (checked under TrackSpec).                   *)
(***************************************************************************)
\* C9: when a call of set resolves, the adapter's enabled field equals the
\* SDK-reported enablement of the source, which is the boolean the call
\* returns.
C9_EnabledIsSdkReported ==
  [][\A i \in CallIds :
       (calls[i].pc = "inflight" /\ calls'[i].pc = "resolved") =>
         /\ calls'[i].ret = SdkReportsEnabled'
         /\ st'.enabled = calls'[i].ret]_vars

\* C10: pending is true exactly while an SDK enable/disable call issued by
\* set/toggle has been started and has not settled.
C10_PendingIffInFlight ==
  st.pending <=> (InFlight # {})

\* C11: a promise of waitUntilNotPending resolves at once when pending is
\* false at the call, and otherwise is eventually resolved once the in-flight
\* set/toggle has settled, whether it succeeded or failed, with no further
\* set/toggle call.
Waiting(i) == i \in CallIds /\ calls[i].pc = "waiting"
C11_WaitersEventuallyResolved ==
  \A i \in 1..MaxCalls : Waiting(i) ~> ~Waiting(i)

\* The part of C11 that holds: a call made while pending is false does not wait.
WaitReturnsAtOnceWhenNotPending ==
  [][\A i \in 1..MaxCalls :
       (i \notin CallIds /\ i \in 1..Len(calls') /\ ~st.pending) =>
         calls'[i].pc \in {"ready", "returned"}]_vars

\* Call i's SDK promise settles in this step, resolved or rejected.
SetResolves(i) == calls[i].pc = "inflight" /\ calls'[i].pc = "resolved"
SetRejects(i) == calls[i].pc = "inflight" /\ calls'[i].pc = "rejected"
Emitted(c, name) == \E k \in 1..Len(c.emits) : c.emits[k].name = name

\* C12: when the SDK call of a set rejects with an Error, the set emits
\* DeviceError exactly once with that error and the adapter's source,
\* rejects with the same error, resets pending to false, leaves enabled and
\* userChoices unchanged and saves nothing; only a set that succeeded has
\* emitted PendingDisabled.
C12_RejectedSet ==
  [][\A i \in CallIds :
       /\ (SetRejects(i) /\ calls'[i].err.t = "error") =>
             /\ calls'[i].emits =
                  <<[name |-> "deviceError",
                     err |-> SdkRejection("rejectedError"),
                     source |-> source]>>
             /\ calls'[i].err = SdkRejection("rejectedError")
             /\ ~st'.pending
             /\ st'.enabled = st.enabled
             /\ st'.userChoices = st.userChoices
             /\ calls'[i].saves = <<>>
       /\ Emitted(calls'[i], "pendingDisabled") => calls'[i].pc = "resolved"]_vars

\* A set on a microphone adapter was rejected with an Error while enabled
\* was true, and emitted DeviceError.
C12_Witness ==
  /\ source = "microphone"
  /\ st.enabled
  /\ ~st.pending
  /\ \E i \in CallIds :
        /\ calls[i].op = "set"
        /\ ~calls[i].x
        /\ calls[i].pc = "rejected"
        /\ calls[i].err.t = "error"
        /\ Emitted(calls[i], "deviceError")

\* C13: a set(x) that succeeds on a camera adapter stores
\* userChoices.videoEnabled = x, on a microphone adapter
\* userChoices.audioEnabled = x, changes no other key, and calls
\* saveUserChoices once with the updated choices and preventUserChoicesSave;
\* on a screen-share adapter no set changes userChoices or saves.
C13_UserChoicesSaved ==
  [][/\ \A i \in CallIds :
          SetResolves(i) =>
            /\ source = "camera" =>
                  st'.userChoices = [st.userChoices EXCEPT !.videoEnabled = calls[i].x]
            /\ source = "microphone" =>
                  st'.userChoices = [st.userChoices EXCEPT !.audioEnabled = calls[i].x]
            /\ source \in {"camera", "microphone"} =>
                  calls'[i].saves = <<[choices |-> st'.userChoices,
                                       preventSave |-> preventUserChoicesSave]>>
     /\ source = "screen_share" =>
          /\ st'.userChoices = st.userChoices
          /\ \A i \in 1..Len(calls') : calls'[i].saves = <<>>]_vars

\* A set(false) succeeded on a camera adapter created with
\* preventUserChoicesSave, and was passed on to saveUserChoices.
C13_Witness ==
  /\ source = "camera"
  /\ preventUserChoicesSave
  /\ ~st.userChoices.videoEnabled
  /\ st.userChoices.audioEnabled
  /\ \E i \in CallIds :
        /\ calls[i].pc = "resolved"
        /\ ~calls[i].x
        /\ Len(calls[i].saves) = 1
        /\ calls[i].saves[1].preventSave
        /\ ~calls[i].saves[1].choices.videoEnabled

\* C17: at most one SDK set<Source>Enabled call issued by the adapter is in
\* flight at any time.
C17_OneSdkCallInFlight ==
  Cardinality(InFlight) <= 1

\* C18: a toggle asks the SDK for the negation of enabled as it is when the
\* SDK request is issued; two toggles, the second called before the first
\* settled or after, leave enabled at its original value once both have
\* resolved.  Stated for an adapter on which only toggle is called and no
\* participant-event handler is subscribed, so that nothing but the toggles
\* themselves writes enabled.
TogglesOnly ==
  /\ lifecycle = <<>>
  /\ Len(calls) = 2
  /\ \A i \in CallIds : calls[i].op = "toggle" /\ calls[i].pc = "resolved"
C18_ToggleInverts ==
  [][/\ \A i \in CallIds :
          (/\ lifecycle = <<>>
           /\ \A j \in CallIds : calls[j].op = "toggle"
           /\ calls[i].pc = "ready"
           /\ calls'[i].pc = "inflight") =>
            calls[i].x = ~st.enabled
     /\ TogglesOnly' => (st'.enabled = ~calls'[1].x)]_vars

(***************************************************************************)
(* Properties of the device list and the active device (checked under      *)
(* DeviceSpec).                                                            *)
(***************************************************************************)
EnumIds == 1..Len(enums)
ChangeCallIds == 1..Len(changes)
HandledEnums == {k \in EnumIds : enums[k].by = "handleDeviceChange"}
HasDevices == source \in {"camera", "microphone"}
AdapterKind == IF source = "camera" THEN "videoinput" ELSE "audioinput"

\* The platform's devices of a kind, those with an empty deviceId removed.
DevicesOfKind(enumeration, kind) ==
  SelectSeq(enumeration, LAMBDA d : d.kind = kind /\ d.deviceId # "")

DeviceListClean ==
  HasDevices => \A n \in 1..Len(st.devices.list) : st.devices.list[n].deviceId # ""

\* C14: on a camera or microphone adapter devices.list is empty until a
\* device-change handling completes; when one completes the list is the
\* platform's enumeration of devices of the adapter's kind without the
\* entries whose deviceId is empty, asked for without requesting
\* permissions; no entry of the list ever has an empty deviceId; no step
\* that starts or ends an enumeration changes devices.kind or
\* devices.activeId.
C14_DeviceList ==
  [][HasDevices =>
       /\ DeviceListClean'
       /\ (\A k \in HandledEnums' : enums'[k].pc # "resolved") => st'.devices.list = <<>>
       /\ \A k \in HandledEnums :
            (enums[k].pc = "pending" /\ enums'[k].pc = "resolved") =>
            \A enumeration \in PlatformEnumerations :
            EnumSettles(k, "resolved", enumeration) =>
              /\ st'.devices.list = DevicesOfKind(enumeration, AdapterKind)
              /\ ~enums[k].requestPermissions
              /\ enums[k].asked
       /\ (enums' # enums) =>
            /\ st'.devices.kind = AdapterKind
            /\ st'.devices.kind = st.devices.kind
            /\ st'.devices.activeId = st.devices.activeId]_vars

\* A camera adapter holds the two cameras with an id, after handling an
\* enumeration (the only one that reports two such cameras also reports a
\* camera with an empty id).
C14_Witness ==
  /\ source = "camera"
  /\ st.devices.list = <<Device("c1", "videoinput"), Device("c2", "videoinput")>>
  /\ \E k \in HandledEnums : enums[k].pc = "resolved"

\* Call c's switchActiveDevice promise resolves in this step.
ChangeResolves(c) == changes[c].pc = "switching" /\ changes'[c].pc = "resolved"

\* The step that resolves call c can have read this active device and this
\* published track from the SDK: they give the id the call returned.
ReadBy(c, active, targetTrack) ==
  changes'[c].ret = newCurrentDeviceId(changes[c].id, active, targetTrack)

\* The device id the claim expects after a successful changeActive(id).
ExpectedActiveId(id, active, targetTrack) ==
  IF /\ id = "default"
     /\ \/ targetTrack.t = "undefined"
        \/ startsWith(targetTrack.label, DefaultPrefix)
  THEN "default"
  ELSE IF active.t = "undefined" THEN id ELSE active.v
PreferenceKey == IF source = "camera" THEN "videoDeviceId" ELSE "audioDeviceId"
DefaultsWhenOmitted ==
  \A c \in ChangeCallIds :
    changes[c].id = (IF changes[c].arg.t = "undefined" THEN "default" ELSE changes[c].arg.v)

\* C15 as stated: after changeActive(id) succeeds on a camera or microphone
\* adapter, devices.activeId is the SDK's active device of the kind (id when
\* it reports none), but 'default' when id is 'default' and no track is
\* published or the track's label starts with 'Default'; the stored device
\* preference is the requested id; an omitted id is 'default'.
C15_ChangeActive ==
  [][/\ (changes' # changes) => DefaultsWhenOmitted'
     /\ \A c \in ChangeCallIds :
          ChangeResolves(c) =>
          \A active \in ActiveDevices, targetTrack \in TargetTracks :
          ReadBy(c, active, targetTrack) =>
            /\ st'.devices.activeId = ExpectedActiveId(changes[c].id, active, targetTrack)
            /\ st'.userChoices[PreferenceKey] = changes[c].id]_vars

\* C15, amended: the same when the resulting device id is not the empty
\* string, and then saveUserChoices is called once with the updated choices;
\* when it is the empty string (id is '' and the SDK reports no device),
\* devices.activeId and userChoices stay as they were and nothing is saved.
C15_ChangeActiveNonEmpty ==
  [][/\ (changes' # changes) => DefaultsWhenOmitted'
     /\ \A c \in ChangeCallIds :
          ChangeResolves(c) =>
          \A active \in ActiveDevices, targetTrack \in TargetTracks :
          ReadBy(c, active, targetTrack) =>
            LET expected == ExpectedActiveId(changes[c].id, active, targetTrack)
            IN  IF expected # ""
                THEN /\ st'.devices.activeId = expected
                     /\ st'.userChoices =
                          [st.userChoices EXCEPT ![PreferenceKey] = changes[c].id]
                     /\ changes'[c].saves =
                          <<[choices |-> st'.userChoices,
                             preventSave |-> preventUserChoicesSave]>>
                ELSE /\ st' = st
                     /\ changes'[c].saves = <<>>]_vars

\* A microphone adapter asked for device 'b' shows the SDK's choice 'a' as
\* active and stores 'b' as the preference.
C15_Witness ==
  /\ source = "microphone"
  /\ st.devices.activeId = "a"
  /\ st.userChoices.audioDeviceId = "b"
  /\ st.userChoices.videoDeviceId = "default"
  /\ \E c \in ChangeCallIds :
        /\ changes[c].pc = "resolved"
        /\ changes[c].id = "b"
        /\ Len(changes[c].saves) = 1

\* C16: when room.switchActiveDevice rejects with an Error, changeActive
\* emits ActiveDeviceChangeError exactly once with that error and the
\* source, rejects with the same error, leaves devices.activeId and
\* userChoices unchanged and saves nothing; on a screen-share adapter every
\* changeActive and listDevices call rejects with an Error without calling
\* the SDK or the platform, and the state does not change.
C16_ChangeActiveRejected ==
  [][/\ \A c \in ChangeCallIds :
          SwitchSettles(c, "rejectedError", Undefined, Undefined) =>
            /\ changes'[c].pc = "rejected"
            /\ changes'[c].err = PlatformRejection("rejectedError")
            /\ changes'[c].err.t = "error"
            /\ changes'[c].emits =
                 <<[name |-> "activeDeviceChangeError",
                    err |-> PlatformRejection("rejectedError"),
                    source |-> source]>>
            /\ st'.devices.activeId = st.devices.activeId
            /\ st'.userChoices = st.userChoices
            /\ changes'[c].saves = <<>>
     /\ source = "screen_share" =>
          /\ st' = st
          /\ \A c \in 1..Len(changes') :
               /\ changes'[c].pc = "rejected"
               /\ changes'[c].err.t = "error"
               /\ ~changes'[c].asked
               /\ changes'[c].emits = <<>>
          /\ \A k \in 1..Len(enums') :
               /\ enums'[k].pc = "rejected"
               /\ enums'[k].err.t = "error"
               /\ ~enums'[k].asked]_vars

\* A changeActive('b') on a camera adapter was rejected with an Error after
\* an earlier device-change handling had filled the list.
C16_Witness ==
  /\ source = "camera"
  /\ st.devices.activeId = "default"
  /\ st.devices.list # <<>>
  /\ \E c \in ChangeCallIds :
        /\ changes[c].id = "b"
        /\ changes[c].pc = "rejected"
        /\ changes[c].asked
        /\ Len(changes[c].emits) = 1

\* C19: once every enumeration started by a device-change handling has
\* completed, devices.list is the result of the one started last.
LastHandledEnum == CHOOSE k \in HandledEnums : \A j \in HandledEnums : j <= k
C19_LatestEnumerationWins ==
  (HandledEnums # {} /\ \A k \in HandledEnums : enums[k].pc = "resolved") =>
    st.devices.list = enums[LastHandledEnum].ret

====
